---- MODULE Spec2Model ----
(***************************************************************************)
(* svelte-store-wasm: the Rust-managed `Readable<T>` store (src/lib.rs)    *)
(* together with the svelte/store primitive it is wired to                 *)
(* (src/bindings.rs declares the binding; its behaviour is the contract of *)
(* the external observable-store primitive).                               *)
(*                                                                         *)
(* The cell is single threaded.  Interleaving arises only from re-entrancy:*)
(* the closure handed to `set_with` is caller code and may reach the       *)
(* JavaScript side (subscribe / unsubscribe on an exported handle) while   *)
(* it holds the `&mut T`.  `set_with` is therefore modelled in steps       *)
(* (begin, one step per write of the closure, end); everything else is one *)
(* step per call.  A listener run by the store during a publish is caller  *)
(* code too; of what it may do, the one case modelled is the one that      *)
(* re-enters the cell: detaching every observer and subscribing again,     *)
(* which makes a re-arming store invoke the start hook inside the publish. *)
(*                                                                         *)
(* A panic (`expect` on a failed publish, get_store off wasm32, a failed   *)
(* borrow_mut) aborts the program: pc = "panicked" is final.  The owner    *)
(* may drop the cell between calls (pc = "dropped"); the store and the     *)
(* handles the JavaScript side holds outlive it.                           *)
(*                                                                         *)
(* The store primitive is svelte's: it keeps the last representation it    *)
(* took, replays it to each new subscriber, hands every published          *)
(* representation to the current subscribers whether or not it changed,    *)
(* and runs the start hook when its first subscriber arrives.  Whether it  *)
(* runs the hook again on later zero-to-one transitions is left open       *)
(* (rearm).                                                                *)
(***************************************************************************)
EXTENDS Integers, Sequences, FiniteSets, TLC

\* ---------------------------------------------------------------- bounds
MaxVal == 2
MaxOps == 2
MaxStarts == 2

Values == 0..MaxVal
Observers == {"A", "B"}
Targets == {"wasm32", "other"}

\* ------------------------------------------------------------- the state
VARIABLES
    target,       \* cfg(target_arch): "wasm32" or another target
    value,        \* Readable.value: the T behind Rc<UnsafeCell<T>>
    set_store,    \* Readable.set_store: the OnceCell holding the publish fn
    store_value,  \* svelte store: the representation it last took
    subscribers,  \* svelte store: observers currently subscribed
    rearm,        \* svelte store: start hook runs on every 0 -> 1 transition
    started,      \* number of start hook invocations so far
    exported,     \* a handle was handed out by get_store
    pc,           \* "idle", "closure" (inside f of set_with), "panicked",
                  \* "dropped" (the cell went out of scope)
    left,         \* the value the running / last closure f wrote last
    fres,         \* the result the last closure f returned
    pre,          \* value when the running / last mutation started
    written,      \* values the memory of T has held during the running closure
    ops,          \* number of set / set_with calls made
    lastOp,       \* the last step taken
    ret,          \* outcome of the last cell operation
    trace,        \* calls made by the last set / set_with, in order
    hookTrace,    \* calls made by the last start hook invocation, in order
    log,          \* per observer: events received since it subscribed
    sess,         \* per observer: the circumstances of its subscription
    expect,       \* per observer: projections of the values since subscription
    installed,    \* the value installed by the last completed mutation
    dirty         \* a mutation happened since the last observer detached

vars == <<target, value, set_store, store_value, subscribers, rearm, started,
          exported, pc, left, fres, pre, written, ops, lastOp, ret, trace,
          hookTrace, log, sess, expect, installed, dirty>>

\* ------------------------------------------------------------ the pieces
\* The construction-time value: `Readable::new(0u8)`.
initial == 0

\* OnceCell::new(): the empty publish slot.
NoFn == 0

\* The projection `mapping_fn: FnMut(&T) -> JsValue`; `new` supplies
\* |v| v.clone().into().  A representation is not a T.
mapping_fn(v) == <<"js", v>>

\* Deref: &*self.value.get()
Deref == value

NoSess == [val |-> 0, quiet |-> FALSE, kind |-> "none", gap |-> FALSE]

ProjEv(v, mid) == <<"proj", v, mid>>
CallEv(fn, rep, res) == <<"call", fn, rep, res>>

\* init_store (wasm32): the projection runs once on the initial value to
\* create the store; the slot is empty.
init_store(initial_value) ==
    [value |-> initial_value,
     store |-> mapping_fn(initial_value),
     set_store |-> NoFn]

\* Readable::new(initial_value)
new(initial_value) == init_store(initial_value)

\* `T::default()`, for the u8 of the example.
T_default == 0

\* Default::default(), had it been derived field by field: the store is
\* not created from the projection of the value.
defaultDerived == [value |-> T_default, store |-> <<"undefined">>,
                   set_store |-> NoFn]

\* Default::default(): `Self::new(T::default())`
default == new(T_default)

\* The state right after a constructor returned the cell `this`: nobody
\* is subscribed and no operation has been made.
Constructed(this) ==
    /\ target \in Targets
    /\ value = this.value
    /\ set_store = this.set_store
    /\ store_value = this.store
    /\ subscribers = {}
    /\ rearm \in BOOLEAN
    /\ started = 0
    /\ exported = FALSE
    /\ pc = "idle"
    /\ left = this.value
    /\ fres = <<"none">>
    /\ pre = this.value
    /\ written = {}
    /\ ops = 0
    /\ lastOp = "new"
    /\ ret = <<"cell">>
    /\ trace = <<>>
    /\ hookTrace = <<>>
    /\ log = [o \in Observers |-> <<>>]
    /\ sess = [o \in Observers |-> NoSess]
    /\ expect = [o \in Observers |-> <<>>]
    /\ installed = this.value
    /\ dirty = FALSE

\* The cell of the example: `Readable::new(0u8)`.
Init == Constructed(new(initial))

\* The same cell built by `Readable::<u8>::default()`.
InitDefault == Constructed(default)

\* ------------------------------------------- the svelte store primitive
\* subscribe(): the start hook runs when the store goes from zero to one
\* subscriber (only the first time unless the primitive re-arms it).
StartFires == subscribers = {} /\ (rearm \/ started = 0)

\* The publish function handed to the start hook by its n-th invocation.
SetFn(n) == n

\* publish: the store takes the representation and hands it to its
\* subscribers.  A publish that returns Ok reached every subscriber; one that
\* returns Err was cut short by the first listener, so it reached none.  A
\* listener is caller code holding the handle: it may detach every observer
\* and subscribe again from inside the publish, which makes a re-arming
\* store invoke the start hook before the publish call has returned
\* ("Reentered").
CanReenter == subscribers # {} /\ rearm

Delivered(res) == IF res = "Ok" THEN subscribers ELSE {}

FanOut(rep, D) == [o \in Observers |->
                     IF o \in D THEN Append(log[o], rep) ELSE log[o]]

\* ------------------------------------------------------- the start hook
\* `&*initial_value.get()` in the start closure.  Outside a mutation it is
\* the stored value.  While the closure of set_with holds its `&mut T` the
\* read aliases a live exclusive reference: the build may or may not have
\* committed the closure's writes, so the read yields any value the memory
\* has held since the closure began.
StartReadsConstruction == {initial}

StartReads == IF pc = "closure" THEN written ELSE {value}

\* The start closure reaches the T through a shared borrow only
\* (`&*initial_value.get()`): whatever it read, it leaves the T as it was.
SharedBorrowWrites(v, read) == read

SharedBorrow(v, read) == v

\* `let _ = set_store.set(set_fn)`: OnceCell keeps its first content.
OnceSetOverwrite(slot, set_fn) == set_fn

OnceSetDropped(slot, set_fn) == slot

OnceSet(slot, set_fn) == IF slot = NoFn THEN set_fn ELSE slot

\* `let _ = set_fn.call1(..)`: the Result of the publish is dropped
\* unread, so the closure goes on whatever it is.
HookStopsOnErr(res) == res = "Err"

HookStops(res) == FALSE

\* The start closure, called with set_fn: project the value read, publish
\* it (the result is discarded), then fill the slot.  No observer is
\* subscribed yet while the hook runs, so the publish reaches none; the store
\* has taken the representation whether the call returns Ok or Err.
start(set_fn, read, res) ==
    /\ hookTrace' = <<ProjEv(read, pc = "closure"),
                      CallEv(set_fn, mapping_fn(read), res)>>
    /\ store_value' = mapping_fn(read)
    /\ set_store' = IF HookStops(res) THEN set_store
                    ELSE OnceSet(set_store, set_fn)
    /\ started' = started + 1
    /\ value' = SharedBorrow(value, read)

\* A step of the JavaScript side.  The record of the last cell operation
\* (lastOp, ret, trace, pre, left, fres) is kept only until the next step
\* after the operation.  From inside the closure of set_with it is one of the
\* closure's calls out.
JsStep ==
    /\ fres' = <<"none">>
    /\ IF pc = "closure"
       THEN UNCHANGED <<lastOp, ret, trace, pre, left, written>>
       ELSE /\ written' = {}
            /\ lastOp' = "js"
            /\ ret' = <<"none">>
            /\ trace' = <<>>
            /\ pre' = value
            /\ left' = value

SubKind == IF subscribers # {} THEN "later"
           ELSE IF started = 0 THEN "first"
           ELSE IF rearm THEN "rearmed" ELSE "reattach"

\* `_set_store_closure: Closure<..>` is a field of the cell: the start
\* closure is freed with the cell, and the function the store was given for
\* it throws from then on instead of running it.
HookCallableForgotten == TRUE

HookCallable == pc # "dropped"

ThrowEv == <<"throw", "closure invoked after being dropped">>

\* The subscription of o is in place: o is registered and has received the
\* replay of the store's value.
Attached(o) ==
    /\ subscribers' = subscribers \cup {o}
    /\ log' = [log EXCEPT ![o] = <<store_value'>>]
    /\ sess' = [sess EXCEPT ![o] = [val |-> value, quiet |-> pc = "idle",
                                    kind |-> SubKind, gap |-> dirty]]
    /\ expect' = [expect EXCEPT ![o] = <<mapping_fn(value)>>]
    /\ dirty' = FALSE

\* An observer subscribes on an exported handle: the start hook first if
\* this is a zero-to-one transition, then the replay of the store's value.
\* If the start hook throws, so does the subscription, before any replay.
subscribe(o, read, res) ==
    /\ target = "wasm32"
    /\ exported
    /\ pc \in {"idle", "closure", "dropped"}
    /\ o \notin subscribers
    /\ IF ~StartFires
       THEN /\ read = value
            /\ res = "Ok"
            /\ hookTrace' = <<>>
            /\ UNCHANGED <<store_value, set_store, started, value>>
            /\ Attached(o)
       ELSE IF HookCallable
       THEN /\ started < MaxStarts
            /\ read \in StartReads
            /\ start(SetFn(started + 1), read, res)
            /\ Attached(o)
       ELSE /\ read = value
            /\ res = "Ok"
            /\ hookTrace' = <<ThrowEv>>
            /\ UNCHANGED <<store_value, set_store, started, value,
                           subscribers, log, sess, expect, dirty>>
    /\ JsStep
    /\ UNCHANGED <<target, rearm, exported, pc, ops, installed>>

unsubscribe(o) ==
    /\ pc \in {"idle", "closure", "dropped"}
    /\ o \in subscribers
    /\ subscribers' = subscribers \ {o}
    /\ log' = [log EXCEPT ![o] = <<>>]
    /\ sess' = [sess EXCEPT ![o] = NoSess]
    /\ expect' = [expect EXCEPT ![o] = <<>>]
    /\ dirty' = FALSE
    /\ hookTrace' = <<>>
    /\ JsStep
    /\ UNCHANGED <<target, value, set_store, store_value, rearm, started,
                   exported, pc, ops, installed>>

\* ------------------------------------------------------------- mutation
\* `#[cfg(target_arch = "wasm32")] if let Some(set_fn) = self.set_store.get()`
ShouldPublishUnguarded == target = "wasm32"

ShouldPublishNever == FALSE

ShouldPublish == target = "wasm32" /\ set_store # NoFn

\* `set_fn.call1(&JsValue::NULL, &self.mapped_set_fn.borrow_mut()(value))`:
\* the projection of the value behind `value`, then the publish call.
MutationCallsTwice(v, res) == <<ProjEv(v, FALSE), ProjEv(v, FALSE),
                                CallEv(set_store, mapping_fn(v), res)>>

MutationCallsStale(v, res) == <<ProjEv(value, FALSE),
                                CallEv(set_store, mapping_fn(value), res)>>

MutationCalls(v, res) == <<ProjEv(v, FALSE),
                           CallEv(set_store, mapping_fn(v), res)>>

\* `.expect("failed to set readable store")`: Err panics, Ok goes on to
\* the operation's own result.
ExpectSwallowed(res, out) == out

Expect(res, out) == IF res = "Err" THEN <<"panic">> ELSE out

\* RefCell::borrow_mut on the projection, given whether a RefMut of it is
\* alive: the second exclusive borrow panics.
borrow_mut(held) == IF held THEN "BorrowMutError" ELSE "RefMut"

BorrowEv(outcome) == <<"borrow_mut", outcome>>

\* In `set_fn.call1(.., &self.mapped_set_fn.borrow_mut()(value)).expect(..)`
\* the RefMut is a temporary of the statement: it is alive until call1 has
\* returned.
HeldDuringPublish == TRUE

\* The start closure invoked from inside the publish call of set or
\* set_with: its own `mapped_set_fn.borrow_mut()` comes first, and panics.
start_reentered ==
    /\ CanReenter
    /\ started < MaxStarts
    /\ started' = started + 1
    /\ hookTrace' = <<BorrowEv(borrow_mut(HeldDuringPublish))>>

\* The publish step shared by set and set_with, on the value v behind
\* `value`, for an operation whose normal result is out.
PublishStep(v, res, out) ==
    IF ShouldPublish
    THEN /\ trace' = MutationCalls(v, res)
         /\ store_value' = trace'[Len(trace')][3]
         /\ log' = FanOut(trace'[Len(trace')][3], Delivered(res))
         /\ IF res = "Reentered"
            THEN /\ start_reentered
                 /\ ret' = <<"panic">>
            ELSE /\ ret' = Expect(res, out)
                 /\ hookTrace' = <<>>
                 /\ UNCHANGED started
         /\ pc' = IF ret' = <<"panic">> THEN "panicked" ELSE "idle"
    ELSE /\ res = "Ok"
         /\ trace' = <<>>
         /\ ret' = out
         /\ pc' = "idle"
         /\ hookTrace' = <<>>
         /\ UNCHANGED <<store_value, log, started>>

\* What the observers subscribed during a mutation are entitled to.
Mutated ==
    /\ expect' = [o \in Observers |->
                    IF o \in subscribers
                    THEN Append(expect[o], mapping_fn(installed'))
                    ELSE expect[o]]
    /\ dirty' = (dirty \/ (subscribers = {} /\ started > 0))

\* `*value = new_value`
AssignLost(old, new_value) == old

Assign(old, new_value) == new_value

set(new_value, res) ==
    /\ pc = "idle"
    /\ ops < MaxOps
    /\ ops' = ops + 1
    /\ pre' = value
    /\ value' = Assign(value, new_value)
    /\ installed' = new_value
    /\ PublishStep(value', res, <<"unit">>)
    /\ Mutated
    /\ lastOp' = "set"
    /\ left' = value'
    /\ fres' = <<"none">>
    /\ written' = {}
    /\ UNCHANGED <<target, set_store, subscribers, rearm, exported, sess>>

\* set_with, up to the call of f: `let value = unsafe { &mut *... }; f(value)`
set_with_begin ==
    /\ pc = "idle"
    /\ ops < MaxOps
    /\ ops' = ops + 1
    /\ pc' = "closure"
    /\ pre' = value
    /\ left' = value
    /\ fres' = <<"none">>
    /\ written' = {value}
    /\ trace' = <<>>
    /\ ret' = <<"running">>
    /\ lastOp' = "closure"
    /\ hookTrace' = <<>>
    /\ UNCHANGED <<target, value, set_store, store_value, subscribers, rearm,
                   started, exported, log, sess, expect, installed,
                   dirty>>

\* One write of f through its `&mut T`.
closure_write(w) ==
    /\ pc = "closure"
    /\ value' = Assign(value, w)
    /\ left' = w
    /\ written' = written \cup {value'}
    /\ lastOp' = "closure"
    /\ hookTrace' = <<>>
    /\ UNCHANGED <<target, set_store, store_value, subscribers, rearm, started,
                   exported, pc, fres, pre, ops, ret, trace, log,
                   sess, expect, installed, dirty>>

\* The value behind `value` once f has returned.
AfterClosureSnapshot(before, now) == before

AfterClosure(before, now) == now

\* The closures f considered return a result derived from the value they
\* were called on (as `|v| { let old = *v; *v = ...; old }` does).
Derived(found) == <<"found", found>>

\* set_with from the return of f: `let o = f(value);`, the publish step,
\* then `o`.
set_with_end(res) ==
    /\ pc = "closure"
    /\ fres' = Derived(pre)
    /\ installed' = left
    /\ PublishStep(AfterClosure(pre, value), res, <<"o", fres'>>)
    /\ Mutated
    /\ written' = {}
    /\ lastOp' = "set_with"
    /\ UNCHANGED <<target, value, set_store, subscribers, rearm, exported,
                   left, pre, ops, sess>>

\* `#[cfg(not(target_arch = "wasm32"))] panic!(...)`
GetStorePanicsNever == FALSE

GetStorePanics == target # "wasm32"

\* get_store: the handle on wasm32, a panic elsewhere.  Every call returns
\* a clone of the same handle, so only the first one changes anything.
get_store ==
    /\ pc = "idle"
    /\ ~exported
    /\ lastOp' = "get_store"
    /\ IF GetStorePanics
       THEN /\ ret' = <<"panic">>
            /\ pc' = "panicked"
            /\ UNCHANGED exported
       ELSE /\ exported' = TRUE
            /\ ret' = <<"handle">>
            /\ pc' = "idle"
    /\ trace' = <<>>
    /\ pre' = value
    /\ left' = value
    /\ fres' = <<"none">>
    /\ hookTrace' = <<>>
    /\ written' = {}
    /\ UNCHANGED <<target, value, set_store, store_value, subscribers, rearm,
                   started, ops, log, sess, expect, installed, dirty>>

\* The owner lets the cell go out of scope: its fields are dropped, the
\* start closure among them.  The store and the handles the JavaScript side
\* holds live on.  Not possible while a call on the cell is running.
drop ==
    /\ pc = "idle"
    /\ pc' = "dropped"
    /\ lastOp' = "drop"
    /\ ret' = <<"none">>
    /\ trace' = <<>>
    /\ pre' = value
    /\ left' = value
    /\ fres' = <<"none">>
    /\ hookTrace' = <<>>
    /\ written' = {}
    /\ UNCHANGED <<target, value, set_store, store_value, subscribers, rearm,
                   started, exported, ops, log, sess, expect, installed, dirty>>

Results == {"Ok", "Err"}

\* What can become of the publish call of a set or set_with.
Outcomes == Results \cup {"Reentered"}

Next ==
    \/ \E v \in Values, res \in Outcomes : set(v, res)
    \/ set_with_begin
    \/ \E w \in Values : closure_write(w)
    \/ \E res \in Outcomes : set_with_end(res)
    \/ get_store
    \/ \E o \in Observers, v \in Values, res \in Results : subscribe(o, v, res)
    \/ \E o \in Observers : unsubscribe(o)
    \/ drop

Spec == Init /\ [][Next]_vars

SpecDefault == InitDefault /\ [][Next]_vars

\* ------------------------------------------------------------ the claims
IsProj(e) == e[1] = "proj"
IsCall(e) == e[1] = "call"
ProjCount(tr) == Cardinality({i \in 1..Len(tr) : IsProj(tr[i])})
CallCount(tr) == Cardinality({i \in 1..Len(tr) : IsCall(tr[i])})

\* The last step completed a set or a set_with call.
MutationDone == lastOp \in {"set", "set_with"}

\* The last step completed a set or a set_with call that returned normally.
MutationReturned == MutationDone /\ ret # <<"panic">>

\* Observer o subscribed between two calls of the cell, not from inside the
\* closure of a running set_with.
Quiet(o) == o \in subscribers /\ sess[o].quiet

C2_NoPublishBeforeSubscription ==
    set_store = NoFn =>
        /\ store_value = <<"js", initial>>
        /\ \A o \in Observers : log[o] = <<>>
        /\ MutationDone => (trace = <<>> /\ ret # <<"panic">>)
        /\ pc # "closure" => Deref = installed

\* Two mutations were made with the slot empty, on wasm32 with the handle
\* exported, and the value read is the mutated one.
C2_Witness ==
    /\ target = "wasm32" /\ exported
    /\ set_store = NoFn
    /\ MutationDone
    /\ ops = 2
    /\ Deref # initial
    /\ Deref = installed

\* C3: a set or set_with that completes with the slot filled makes exactly
\* one projection call and then exactly one call of the captured publish
\* function, on the value after the mutation; it returns normally only if
\* that call returned Ok.
C3_OneProjectionThenOnePublish ==
    (MutationDone /\ set_store # NoFn) =>
        /\ Len(trace) = 2
        /\ trace[1] = <<"proj", installed, FALSE>>
        /\ trace[2][1] = "call"
        /\ trace[2][2] = set_store
        /\ trace[2][3] = <<"js", installed>>
        /\ ret # <<"panic">> => trace[2][4] = "Ok"

\* A set with the value the cell already held completed with the slot filled
\* and an observer subscribed: it projected and published the unchanged
\* value, and the observer received it again.
C3_Witness ==
    /\ lastOp = "set"
    /\ ret = <<"unit">>
    /\ set_store # NoFn
    /\ pre = value
    /\ Len(trace) = 2
    /\ trace[2][3] = store_value
    /\ Len(log["A"]) = 2
    /\ log["A"][1] = log["A"][2]

C5_NoProjectionMidMutation ==
    /\ \A i \in 1..Len(trace) : IsProj(trace[i]) => trace[i][3] = FALSE
    /\ \A i \in 1..Len(hookTrace) :
          IsProj(hookTrace[i]) => hookTrace[i][3] = FALSE

\* C6: a set_with that returns yields exactly the result its closure
\* returned, with the slot filled or empty; with the slot filled its single
\* publish carries the projection of the value as the closure left it.
C6_SetWithResultAndPublish ==
    lastOp = "set_with" =>
        /\ ret # <<"panic">> => ret = <<"o", fres>>
        /\ fres = <<"found", pre>>
        /\ set_store # NoFn =>
              /\ CallCount(trace) = 1
              /\ trace[Len(trace)][3] = <<"js", left>>
              /\ store_value = <<"js", left>>

\* A set_with returned with the slot filled and an observer subscribed after
\* its closure changed the value: the observer's last event is the
\* projection of the value the closure left, not of the one it found.
C6_Witness ==
    /\ lastOp = "set_with"
    /\ ret = <<"o", <<"found", pre>>>>
    /\ set_store # NoFn
    /\ left # pre
    /\ store_value = <<"js", left>>
    /\ Quiet("A")
    /\ log["A"][Len(log["A"])] = <<"js", left>>

\* C7: between two calls a read returns the value installed by the last one
\* (the argument of set, the value the closure of set_with left), whatever
\* subscribe, unsubscribe, start hook and publish events happened since.
C7_ReadConsistency ==
    pc # "closure" => Deref = installed

\* A value was installed, then the first observer subscribed (start hook
\* and replay): the read still returns the installed value.
C7_Witness ==
    /\ lastOp = "js"
    /\ ops > 0
    /\ hookTrace # <<>>
    /\ installed # initial
    /\ Deref = installed

\* C8: the publish slot starts empty, is filled only by a start hook
\* invocation, with the publish function that invocation was handed, and
\* once filled never changes again.
C8_WriteOnceSlot ==
    /\ set_store = NoFn
    /\ [][/\ set_store # NoFn => set_store' = set_store
          /\ set_store' # set_store =>
                /\ started' = started + 1
                /\ hookTrace' # <<>>
                /\ set_store' = hookTrace'[2][2]]_vars

\* The start hook has run twice, every observer has detached, and the slot
\* still holds the publish function of the first invocation.
C8_Witness ==
    /\ started = 2
    /\ subscribers = {}
    /\ set_store = 1

\* C9: when the publish call of a set or set_with returns Err the operation
\* panics, the stored value is already the new one, and that call was the
\* only publish attempt.
C9_PublishFailureAborts ==
    (MutationDone /\ \E i \in 1..Len(trace) :
                        IsCall(trace[i]) /\ trace[i][4] = "Err") =>
        /\ ret = <<"panic">>
        /\ pc = "panicked"
        /\ Deref = installed
        /\ CallCount(trace) = 1

\* A set_with whose closure changed the value panicked on its publish.
C9_Witness ==
    /\ lastOp = "set_with"
    /\ pc = "panicked"
    /\ trace # <<>>
    /\ trace[Len(trace)][4] = "Err"
    /\ Deref # pre
    /\ Deref = installed

MutationStep ==
    \/ lastOp' = "set"
    \/ /\ pc = "closure" /\ pc' = "closure"
       /\ lastOp' = "closure"
       /\ subscribers' = subscribers

\* A step made through the handle alone: get_store, a subscription (with
\* or without the start hook), an unsubscription.  (A start hook invoked
\* from inside the publish of a set is part of that set's step.)
HandleStep ==
    \/ lastOp' = "get_store"
    \/ exported' # exported
    \/ subscribers' # subscribers
    \/ started' # started /\ lastOp' # "set"

\* C11: the handle carries no mutation capability: get_store, subscribe,
\* unsubscribe and the start hook leave the stored value unchanged; the
\* value changes only inside set and set_with.
C11_HandleCannotMutate ==
    [][/\ HandleStep => value' = value
       /\ value' # value => MutationStep]_vars

\* The hook has run twice, A has received an update after its replay, B has
\* just subscribed, and the value is still the one the last mutation
\* installed, not the construction-time one.
C11_Witness ==
    /\ exported /\ started = 2
    /\ lastOp = "js"
    /\ subscribers = {"A", "B"}
    /\ Len(log["A"]) >= 2
    /\ Len(log["B"]) = 1
    /\ value = installed
    /\ value # initial

\* C12: off wasm32, get_store always panics and never hands out a handle;
\* construction, set and set_with still complete there, make no call to the
\* store, and a read between calls returns the value last installed.
C12_GetStoreFatalOffWasm ==
    target # "wasm32" =>
        /\ ~exported
        /\ subscribers = {} /\ started = 0 /\ set_store = NoFn
        /\ lastOp = "get_store" => (ret = <<"panic">> /\ pc = "panicked")
        /\ pc = "panicked" => lastOp = "get_store"
        /\ MutationDone => (ret # <<"panic">> /\ trace = <<>>)
        /\ pc # "closure" => Deref = installed

\* Off wasm32, after a set and a set_with that changed the value, get_store
\* has just panicked.
C12_Witness ==
    /\ target # "wasm32"
    /\ lastOp = "get_store" /\ ret = <<"panic">>
    /\ ops = 2
    /\ Deref = installed /\ Deref # initial

\* The start hook has just run for the first time, on a cell nothing has
\* mutated yet.
FirstPublish == started = 1 /\ ops = 0 /\ CallCount(hookTrace) = 1

\* C13 (P6): a cell built by default() is a cell built by new(T::default()):
\* it starts in the state that constructor leaves (same stored value, same
\* representation given to the store, same empty slot); whatever is done
\* to it, it reads as T::default() until a mutation is made and its store
\* holds the initial representation of new(T::default()) until the start
\* hook runs; and its first published representation is the projection
\* that cell publishes.
C13_DefaultIsNewOfDefault ==
    /\ Constructed(new(T_default))
    /\ [](ops = 0 => Deref = new(T_default).value)
    /\ [](started = 0 => /\ store_value = new(T_default).store
                         /\ set_store = new(T_default).set_store)
    /\ [](FirstPublish =>
            /\ hookTrace[2][3] = new(T_default).store
            /\ \A o \in subscribers : log[o] = <<new(T_default).store>>)

\* On a cell built by default(), the first observer has subscribed before
\* any mutation and holds the projection of T::default().
C13_Witness ==
    /\ FirstPublish
    /\ subscribers = {"A"}
    /\ log["A"] = <<mapping_fn(T_default)>>
    /\ Deref = T_default

\* The step completes a set or a set_with that made a publish call.
PublishingStep == lastOp' \in {"set", "set_with"} /\ trace' # <<>>

\* The step runs the start hook.
HookStep == started' # started

\* C14: publishing is synchronous and unqueued.  The store takes a new
\* representation only in a step of set, set_with or the start hook, and an
\* observer that stays subscribed receives an event only in a step of set or
\* set_with, namely the representation published by that step; when a set or
\* set_with has returned with the slot filled, its own single publish of the
\* value it installed has been taken by the store and has reached every
\* subscriber.
C14_SynchronousPublish ==
    /\ [][/\ store_value' # store_value => (PublishingStep \/ HookStep)
          /\ \A o \in subscribers \cap subscribers' :
                log'[o] # log[o] =>
                    /\ PublishingStep
                    /\ log'[o] = Append(log[o], store_value')]_vars
    /\ []((MutationReturned /\ set_store # NoFn) =>
            /\ CallCount(trace) = 1
            /\ trace[Len(trace)][3] = mapping_fn(Deref)
            /\ store_value = mapping_fn(Deref)
            /\ \A o \in subscribers :
                  log[o][Len(log[o])] = mapping_fn(Deref))

\* Two mutations to different values have returned while A was subscribed:
\* A holds its replay and one event for each, the second being what the
\* store now holds.
C14_Witness ==
    /\ MutationReturned
    /\ ops = 2
    /\ subscribers = {"A"}
    /\ Len(log["A"]) = 3
    /\ log["A"][2] # log["A"][3]
    /\ log["A"][3] = store_value
    /\ store_value = mapping_fn(Deref)

\* C15: once the cell is dropped it stays dropped and the handles are inert:
\* the start hook never runs again, neither the cell nor the hook makes a
\* publish call, the store keeps the representation it held, an observer
\* that stays subscribed receives nothing, and an observer that subscribes
\* receives at most the store's replay of that old representation.  A first
\* subscription made only after the drop runs no hook at all.
C15_InertAfterDrop ==
    [][pc = "dropped" =>
          /\ pc' = "dropped"
          /\ started' = started /\ set_store' = set_store
          /\ store_value' = store_value
          /\ trace' = <<>>
          /\ CallCount(hookTrace') = 0 /\ ProjCount(hookTrace') = 0
          /\ \A o \in subscribers \cap subscribers' : log'[o] = log[o]
          /\ \A o \in subscribers' \ subscribers :
                log'[o] = <<store_value>>]_vars

\* The cell was mutated and dropped before anyone subscribed; the first
\* subscription, made on the retained handle afterwards, has just failed in
\* the start hook, and no observer holds any event.
C15_Witness ==
    /\ pc = "dropped" /\ exported
    /\ started = 0
    /\ hookTrace = <<ThrowEv>>
    /\ installed # initial
    /\ \A o \in Observers : log[o] = <<>>

\* C18: the exclusive borrow of the projection never fails: no start hook
\* invocation finds the projection already borrowed.
C18_ProjectionBorrowNeverFails ==
    \A i \in 1..Len(hookTrace) :
        hookTrace[i] # BorrowEv("BorrowMutError")

\* The last start hook invocation made its publish call and got Err.
HookPublishFailed ==
    /\ CallCount(hookTrace) = 1
    /\ hookTrace[Len(hookTrace)][4] = "Err"

\* C16, as claimed: every invocation of the start hook, the first and any
\* later one, projects the then-current value once and publishes it once,
\* and leaves in the slot the publish function of the first invocation.
C16_EveryHookInvocationPublishes ==
    [][started' # started =>
          /\ ProjCount(hookTrace') = 1
          /\ CallCount(hookTrace') = 1
          /\ hookTrace'[1][2] = value'
          /\ hookTrace'[Len(hookTrace')][3] = mapping_fn(value')
          /\ set_store' = SetFn(1)]_vars

\* C17: a failed publish inside the start hook is ignored: the hook has
\* still filled the slot and nothing has panicked, and a set or set_with
\* that completes next publishes the projection of its value through the
\* stored function.
C17_HookPublishFailureIgnored ==
    /\ [](HookPublishFailed => (set_store # NoFn /\ pc # "panicked"))
    /\ [][(HookPublishFailed /\ lastOp' \in {"set", "set_with"}) =>
            /\ Len(trace') = 2
            /\ trace'[2][1] = "call"
            /\ trace'[2][2] = set_store
            /\ trace'[2][3] = mapping_fn(value')]_vars

\* The first invocation of the start hook got Err from its publish call;
\* the slot holds the function it was given and the observer is subscribed.
C17_Witness ==
    /\ started = 1
    /\ HookPublishFailed
    /\ set_store = SetFn(1)
    /\ subscribers = {"A"}
    /\ pc = "idle"
====
